---------------------------- MODULE Spec2Model ----------------------------
(***************************************************************************)
(* SemanticscholarApp (universal_mcp_semanticscholar/app.py): an adapter   *)
(* that maps each of fourteen operations to one HTTP request.              *)
(*                                                                         *)
(* Python values are tagged records, so that None, 0, "" and [] are four   *)
(* different values.  A URL is the sequence of its path segments:          *)
(* "/graph/v1/paper/123" is <<"graph", "v1", "paper", "123">>.             *)
(* An invocation is a frame: it is entered by the operation's action       *)
(* (argument check, parameter assembly, the _get/_post call), the          *)
(* transport answers it, and the two closing statements of the operation   *)
(* (raise_for_status, json) end it.                                        *)
(***************************************************************************)
EXTENDS Integers, Sequences, FiniteSets, TLC

VARIABLES app, frame, tools

vars == <<app, frame, tools>>

---------------------------------------------------------------------------
(* Bounds *)

\* At most this many arguments of one invocation are not None.
MaxSupplied == 3

\* At most this many arguments of two invocations under way at the same
\* time, taken together, are not None.
MaxConcurrentSupplied == 1

---------------------------------------------------------------------------
(* Python values *)

None == [type |-> "NoneType"]
PyStr(s) == [type |-> "str", val |-> s]
PyInt(n) == [type |-> "int", val |-> n]
PyList(xs) == [type |-> "list", val |-> xs]

\* Argument values: None, a falsy value and a truthy value of each type.
StrArgs == {None, PyStr(""), PyStr("bert")}
IntArgs == {None, PyInt(0), PyInt(5)}
IdArgs == {None, PyStr(""), PyStr("123")}
ListArgs == {None, PyList(<<>>), PyList(<<"A1", "A2">>)}

\* bool(v): Python truthiness.
Truthy(v) ==
    CASE v.type = "NoneType" -> FALSE
      [] v.type = "str" -> v.val # ""
      [] v.type = "int" -> v.val # 0
      [] v.type = "list" -> v.val # <<>>

\* The text an f-string puts for {v}.
format(v) ==
    CASE v.type = "str" -> v.val
      [] v.type = "NoneType" -> "None"

\* The arguments of an invocation that are not None.
Supplied(args) == {k \in DOMAIN args : args[k] # None}

---------------------------------------------------------------------------
(* The transport (external): what _get/_post can answer *)

JsonBodies == {[json |-> TRUE, value |-> [paperId |-> "123"]],
               [json |-> TRUE, value |-> [error |-> "Not Found"]]}
Bodies == JsonBodies \cup {[json |-> FALSE, value |-> "<html>"]}
SuccessStatus == {200}
ErrorStatus == {404}
Responses == [status_code : SuccessStatus \cup ErrorStatus, body : Bodies]

is_success(response) == response.status_code \in SuccessStatus

Return(v) == [kind |-> "return", value |-> v]
Raise(e) == [kind |-> "raise", exc |-> e]
ValueError(msg) == [type |-> "ValueError", msg |-> msg]
HTTPStatusError(response) ==
    [type |-> "HTTPStatusError", status_code |-> response.status_code]
JSONDecodeError == [type |-> "JSONDecodeError"]
ConnectError == [type |-> "ConnectError"]

Request(method, url, params, data) ==
    [method |-> method, url |-> url, params |-> params, data |-> data]

---------------------------------------------------------------------------
(* Construction *)

Integrations == {None, [type |-> "ApiKeyIntegration", name |-> "SEMANTICSCHOLAR_API_KEY"]}

Callers == {"c1"}

Idle == [pc |-> "idle", op |-> "", args |-> <<>>, requests |-> <<>>,
         response |-> None, outcome |-> None, decoded |-> FALSE]

\* SemanticscholarApp.__init__
Init ==
    /\ \E integration \in Integrations :
         app = [name |-> "semanticscholarapp",
                integration |-> integration,
                base_url |-> <<"graph", "v1">>]
    /\ frame = [c \in Callers |-> Idle]
    /\ tools = None

\* The hosting framework's concurrent invocations of the one app_instance.
ConcurrentCallers == {"c1", "c2"}

\* server.py: the adapter constructed with the API-key integration and
\* handed to the server, which may have several invocations under way.
InitConcurrent ==
    /\ app = [name |-> "semanticscholarapp",
              integration |-> [type |-> "ApiKeyIntegration",
                               name |-> "SEMANTICSCHOLAR_API_KEY"],
              base_url |-> <<"graph", "v1">>]
    /\ frame = [c \in ConcurrentCallers |-> Idle]
    /\ tools = None

---------------------------------------------------------------------------
(* Parameter assembly and the transport calls *)

\* {k: v for k, v in pairs if v}: the filter by truthiness.
dict_comprehension_truthy(pairs) ==
    LET kept == {i \in 1..Len(pairs) : Truthy(pairs[i][2])}
        last(k) == CHOOSE i \in kept :
                     /\ pairs[i][1] = k
                     /\ \A j \in kept : pairs[j][1] = k => j <= i
    IN  [k \in {pairs[i][1] : i \in kept} |-> pairs[last(k)][2]]

\* {k: v for k, v in pairs if v is not None}
dict_comprehension(pairs) ==
    LET kept == {i \in 1..Len(pairs) : pairs[i][2] # None}
        last(k) == CHOOSE i \in kept :
                     /\ pairs[i][1] = k
                     /\ \A j \in kept : pairs[j][1] = k => j <= i
    IN  [k \in {pairs[i][1] : i \in kept} |-> pairs[last(k)][2]]

\* The transport call repeated once: two requests for one invocation.
Sent_twice(c, op, args, method, url, params, data) ==
    [pc |-> "waiting", op |-> op, args |-> args,
     requests |-> frame[c].requests \o <<Request(method, url, params, data),
                                         Request(method, url, params, data)>>,
     response |-> None, outcome |-> None, decoded |-> FALSE]

\* The frame of caller c once `method` was called on the transport.
Sent(c, op, args, method, url, params, data) ==
    [pc |-> "waiting", op |-> op, args |-> args,
     requests |-> Append(frame[c].requests, Request(method, url, params, data)),
     response |-> None, outcome |-> None, decoded |-> FALSE]

\* self._get(url, params=query_params)
get(c, op, args, url, params) ==
    frame' = [frame EXCEPT ![c] = Sent(c, op, args, "GET", url, params, None)]

\* self._post(url, data=request_body, params=query_params)
post(c, op, args, url, data, params) ==
    frame' = [frame EXCEPT ![c] = Sent(c, op, args, "POST", url, params, data)]

\* raise ValueError("Missing required parameter '<name>'")
raise_ValueError(c, op, args, name) ==
    frame' = [frame EXCEPT ![c] =
                [pc |-> "done", op |-> op, args |-> args,
                 requests |-> frame[c].requests,
                 response |-> None,
                 outcome |-> Raise(ValueError("Missing required parameter '" \o name \o "'")),
                 decoded |-> FALSE]]

\* The subsets of `names` of at most n elements.
RECURSIVE AtMost(_, _)
AtMost(names, n) ==
    IF n < 0 THEN {}
    ELSE IF n = 0 THEN {{}}
    ELSE LET less == AtMost(names, n - 1)
         IN  less \cup {S \cup {k} : S \in less, k \in names}

\* How many arguments other than None caller c may enter with: MaxSupplied,
\* and MaxConcurrentSupplied together with each invocation under way.
Budget(c) ==
    LET others == {d \in DOMAIN frame \ {c} : frame[d].pc # "idle"}
        left(d) == MaxConcurrentSupplied - Cardinality(Supplied(frame[d].args))
    IN  IF others = {} THEN MaxSupplied
        ELSE CHOOSE n \in {left(d) : d \in others} :
               \A d \in others : n <= left(d)

\* The arguments caller c may enter an operation with: one value of
\* signature[k] for each parameter k, None but for at most Budget(c) of them.
Arguments(c, signature) ==
    UNION {
      LET values == UNION {signature[k] \ {None} : k \in S}
      IN  {[k \in DOMAIN signature |-> IF k \in S THEN v[k] ELSE None] :
             v \in {w \in [S -> values] : \A k \in S : w[k] \in signature[k]}}
      : S \in AtMost(DOMAIN signature, Budget(c)) }

---------------------------------------------------------------------------
(* The fourteen operations, up to and including the transport call *)

post_graph_get_authors(c) ==
    /\ frame[c].pc = "idle"
    /\ \E args \in Arguments(c, [fields |-> StrArgs, ids |-> ListArgs]) :
         LET request_body == dict_comprehension(<<<<"ids", args.ids>>>>)
             url == app.base_url \o <<"author", "batch">>
             query_params ==
               dict_comprehension(<<<<"fields", args.fields>>>>)
         IN  post(c, "post_graph_get_authors", args, url, request_body, query_params)
    /\ UNCHANGED <<app, tools>>

\* get_graph_get_author_search with query checked as the identifiers are.
get_graph_get_author_search_checked(c) ==
    /\ frame[c].pc = "idle"
    /\ \E args \in Arguments(c, [query |-> StrArgs, offset |-> IntArgs,
                                   limit |-> IntArgs, fields |-> StrArgs]) :
         IF args.query = None
         THEN raise_ValueError(c, "get_graph_get_author_search", args, "query")
         ELSE LET url == app.base_url \o <<"author", "search">>
                  query_params ==
                    dict_comprehension(<<<<"offset", args.offset>>,
                                       <<"limit", args.limit>>,
                                       <<"fields", args.fields>>,
                                       <<"query", args.query>>>>)
              IN  get(c, "get_graph_get_author_search", args, url, query_params)
    /\ UNCHANGED <<app, tools>>

get_graph_get_author_search(c) ==
    /\ frame[c].pc = "idle"
    /\ \E args \in Arguments(c, [query |-> StrArgs, offset |-> IntArgs,
                                   limit |-> IntArgs, fields |-> StrArgs]) :
         LET url == app.base_url \o <<"author", "search">>
             query_params ==
               dict_comprehension(<<<<"offset", args.offset>>,
                                       <<"limit", args.limit>>,
                                       <<"fields", args.fields>>,
                                       <<"query", args.query>>>>)
         IN  get(c, "get_graph_get_author_search", args, url, query_params)
    /\ UNCHANGED <<app, tools>>

\* get_graph_get_author keeping the URL it built as the adapter's base URL.
get_graph_get_author_rebasing(c) ==
    /\ frame[c].pc = "idle"
    /\ \E args \in Arguments(c, [author_id |-> IdArgs, fields |-> StrArgs]) :
         IF args.author_id = None
         THEN /\ raise_ValueError(c, "get_graph_get_author", args, "author_id")
              /\ UNCHANGED app
         ELSE LET url == app.base_url \o <<"author", format(args.author_id)>>
                  query_params ==
                    dict_comprehension(<<<<"fields", args.fields>>>>)
              IN  /\ get(c, "get_graph_get_author", args, url, query_params)
                  /\ app' = [app EXCEPT !.base_url = url]
    /\ UNCHANGED tools

get_graph_get_author(c) ==
    /\ frame[c].pc = "idle"
    /\ \E args \in Arguments(c, [author_id |-> IdArgs, fields |-> StrArgs]) :
         IF args.author_id = None
         THEN raise_ValueError(c, "get_graph_get_author", args, "author_id")
         ELSE LET url == app.base_url \o <<"author", format(args.author_id)>>
                  query_params ==
                    dict_comprehension(<<<<"fields", args.fields>>>>)
              IN  get(c, "get_graph_get_author", args, url, query_params)
    /\ UNCHANGED <<app, tools>>

get_graph_get_author_papers(c) ==
    /\ frame[c].pc = "idle"
    /\ \E args \in Arguments(c, [author_id |-> IdArgs, offset |-> IntArgs,
                                   limit |-> IntArgs, fields |-> StrArgs]) :
         IF args.author_id = None
         THEN raise_ValueError(c, "get_graph_get_author_papers", args, "author_id")
         ELSE LET url == app.base_url \o <<"author", format(args.author_id), "papers">>
                  query_params ==
                    dict_comprehension(<<<<"offset", args.offset>>,
                                       <<"limit", args.limit>>,
                                       <<"fields", args.fields>>>>)
              IN  get(c, "get_graph_get_author_papers", args, url, query_params)
    /\ UNCHANGED <<app, tools>>

get_graph_get_paper_autocomplete(c) ==
    /\ frame[c].pc = "idle"
    /\ \E args \in Arguments(c, [query |-> StrArgs]) :
         LET url == app.base_url \o <<"paper", "autocomplete">>
             query_params ==
               dict_comprehension(<<<<"query", args.query>>>>)
         IN  get(c, "get_graph_get_paper_autocomplete", args, url, query_params)
    /\ UNCHANGED <<app, tools>>

\* post_graph_get_papers with the body sent as first built, None included.
post_graph_get_papers_unfiltered(c) ==
    /\ frame[c].pc = "idle"
    /\ \E args \in Arguments(c, [fields |-> StrArgs, ids |-> ListArgs]) :
         LET request_body == [ids |-> args.ids]
             url == app.base_url \o <<"paper", "batch">>
             query_params ==
               dict_comprehension(<<<<"fields", args.fields>>>>)
         IN  post(c, "post_graph_get_papers", args, url, request_body, query_params)
    /\ UNCHANGED <<app, tools>>

post_graph_get_papers(c) ==
    /\ frame[c].pc = "idle"
    /\ \E args \in Arguments(c, [fields |-> StrArgs, ids |-> ListArgs]) :
         LET request_body == dict_comprehension(<<<<"ids", args.ids>>>>)
             url == app.base_url \o <<"paper", "batch">>
             query_params ==
               dict_comprehension(<<<<"fields", args.fields>>>>)
         IN  post(c, "post_graph_get_papers", args, url, request_body, query_params)
    /\ UNCHANGED <<app, tools>>

get_graph_paper_relevance_search(c) ==
    /\ frame[c].pc = "idle"
    /\ \E args \in Arguments(c, [query |-> StrArgs, fields |-> StrArgs,
                                   publicationTypes |-> StrArgs,
                                   openAccessPdf |-> StrArgs,
                                   minCitationCount |-> StrArgs,
                                   publicationDateOrYear |-> StrArgs,
                                   year |-> StrArgs, venue |-> StrArgs,
                                   fieldsOfStudy |-> StrArgs,
                                   offset |-> IntArgs, limit |-> IntArgs]) :
         LET url == app.base_url \o <<"paper", "search">>
             query_params ==
               dict_comprehension(<<<<"query", args.query>>,
                                       <<"fields", args.fields>>,
                                       <<"publicationTypes", args.publicationTypes>>,
                                       <<"openAccessPdf", args.openAccessPdf>>,
                                       <<"minCitationCount", args.minCitationCount>>,
                                       <<"publicationDateOrYear", args.publicationDateOrYear>>,
                                       <<"year", args.year>>,
                                       <<"venue", args.venue>>,
                                       <<"fieldsOfStudy", args.fieldsOfStudy>>,
                                       <<"offset", args.offset>>,
                                       <<"limit", args.limit>>>>)
         IN  get(c, "get_graph_paper_relevance_search", args, url, query_params)
    /\ UNCHANGED <<app, tools>>

get_graph_paper_bulk_search(c) ==
    /\ frame[c].pc = "idle"
    /\ \E args \in Arguments(c, [query |-> StrArgs, token |-> StrArgs,
                                   fields |-> StrArgs, sort |-> StrArgs,
                                   publicationTypes |-> StrArgs,
                                   openAccessPdf |-> StrArgs,
                                   minCitationCount |-> StrArgs,
                                   publicationDateOrYear |-> StrArgs,
                                   year |-> StrArgs, venue |-> StrArgs,
                                   fieldsOfStudy |-> StrArgs]) :
         LET url == app.base_url \o <<"paper", "search", "bulk">>
             query_params ==
               dict_comprehension(<<<<"query", args.query>>,
                                       <<"token", args.token>>,
                                       <<"fields", args.fields>>,
                                       <<"sort", args.sort>>,
                                       <<"publicationTypes", args.publicationTypes>>,
                                       <<"openAccessPdf", args.openAccessPdf>>,
                                       <<"minCitationCount", args.minCitationCount>>,
                                       <<"publicationDateOrYear", args.publicationDateOrYear>>,
                                       <<"year", args.year>>,
                                       <<"venue", args.venue>>,
                                       <<"fieldsOfStudy", args.fieldsOfStudy>>>>)
         IN  get(c, "get_graph_paper_bulk_search", args, url, query_params)
    /\ UNCHANGED <<app, tools>>

get_graph_paper_title_search(c) ==
    /\ frame[c].pc = "idle"
    /\ \E args \in Arguments(c, [query |-> StrArgs, fields |-> StrArgs,
                                   publicationTypes |-> StrArgs,
                                   openAccessPdf |-> StrArgs,
                                   minCitationCount |-> StrArgs,
                                   publicationDateOrYear |-> StrArgs,
                                   year |-> StrArgs, venue |-> StrArgs,
                                   fieldsOfStudy |-> StrArgs]) :
         LET url == app.base_url \o <<"paper", "search", "match">>
             query_params ==
               dict_comprehension(<<<<"query", args.query>>,
                                       <<"fields", args.fields>>,
                                       <<"publicationTypes", args.publicationTypes>>,
                                       <<"openAccessPdf", args.openAccessPdf>>,
                                       <<"minCitationCount", args.minCitationCount>>,
                                       <<"publicationDateOrYear", args.publicationDateOrYear>>,
                                       <<"year", args.year>>,
                                       <<"venue", args.venue>>,
                                       <<"fieldsOfStudy", args.fieldsOfStudy>>>>)
         IN  get(c, "get_graph_paper_title_search", args, url, query_params)
    /\ UNCHANGED <<app, tools>>

get_graph_get_paper(c) ==
    /\ frame[c].pc = "idle"
    /\ \E args \in Arguments(c, [paper_id |-> IdArgs, fields |-> StrArgs]) :
         IF args.paper_id = None
         THEN raise_ValueError(c, "get_graph_get_paper", args, "paper_id")
         ELSE LET url == app.base_url \o <<"paper", format(args.paper_id)>>
                  query_params ==
                    dict_comprehension(<<<<"fields", args.fields>>>>)
              IN  get(c, "get_graph_get_paper", args, url, query_params)
    /\ UNCHANGED <<app, tools>>

get_graph_get_paper_authors(c) ==
    /\ frame[c].pc = "idle"
    /\ \E args \in Arguments(c, [paper_id |-> IdArgs, offset |-> IntArgs,
                                   limit |-> IntArgs, fields |-> StrArgs]) :
         IF args.paper_id = None
         THEN raise_ValueError(c, "get_graph_get_paper_authors", args, "paper_id")
         ELSE LET url == app.base_url \o <<"paper", format(args.paper_id), "authors">>
                  query_params ==
                    dict_comprehension(<<<<"offset", args.offset>>,
                                       <<"limit", args.limit>>,
                                       <<"fields", args.fields>>>>)
              IN  get(c, "get_graph_get_paper_authors", args, url, query_params)
    /\ UNCHANGED <<app, tools>>

\* get_graph_get_paper_citations without its required-parameter check.
get_graph_get_paper_citations_unchecked(c) ==
    /\ frame[c].pc = "idle"
    /\ \E args \in Arguments(c, [paper_id |-> IdArgs, offset |-> IntArgs,
                                   limit |-> IntArgs, fields |-> StrArgs]) :
         LET url == app.base_url \o <<"paper", format(args.paper_id), "citations">>
             query_params ==
               dict_comprehension(<<<<"offset", args.offset>>,
                                       <<"limit", args.limit>>,
                                       <<"fields", args.fields>>>>)
         IN  get(c, "get_graph_get_paper_citations", args, url, query_params)
    /\ UNCHANGED <<app, tools>>

get_graph_get_paper_citations(c) ==
    /\ frame[c].pc = "idle"
    /\ \E args \in Arguments(c, [paper_id |-> IdArgs, offset |-> IntArgs,
                                   limit |-> IntArgs, fields |-> StrArgs]) :
         IF args.paper_id = None
         THEN raise_ValueError(c, "get_graph_get_paper_citations", args, "paper_id")
         ELSE LET url == app.base_url \o <<"paper", format(args.paper_id), "citations">>
                  query_params ==
                    dict_comprehension(<<<<"offset", args.offset>>,
                                       <<"limit", args.limit>>,
                                       <<"fields", args.fields>>>>)
              IN  get(c, "get_graph_get_paper_citations", args, url, query_params)
    /\ UNCHANGED <<app, tools>>

get_graph_get_paper_references(c) ==
    /\ frame[c].pc = "idle"
    /\ \E args \in Arguments(c, [paper_id |-> IdArgs, offset |-> IntArgs,
                                   limit |-> IntArgs, fields |-> StrArgs]) :
         IF args.paper_id = None
         THEN raise_ValueError(c, "get_graph_get_paper_references", args, "paper_id")
         ELSE LET url == app.base_url \o <<"paper", format(args.paper_id), "references">>
                  query_params ==
                    dict_comprehension(<<<<"offset", args.offset>>,
                                       <<"limit", args.limit>>,
                                       <<"fields", args.fields>>>>)
              IN  get(c, "get_graph_get_paper_references", args, url, query_params)
    /\ UNCHANGED <<app, tools>>

\* get_snippet_search with its path beside the base path, not under it.
get_snippet_search_sibling(c) ==
    /\ frame[c].pc = "idle"
    /\ \E args \in Arguments(c, [query |-> StrArgs, limit |-> IntArgs]) :
         LET url == <<"snippet", "search">>
             query_params ==
               dict_comprehension(<<<<"query", args.query>>,
                                       <<"limit", args.limit>>>>)
         IN  get(c, "get_snippet_search", args, url, query_params)
    /\ UNCHANGED <<app, tools>>

get_snippet_search(c) ==
    /\ frame[c].pc = "idle"
    /\ \E args \in Arguments(c, [query |-> StrArgs, limit |-> IntArgs]) :
         LET url == app.base_url \o <<"snippet", "search">>
             query_params ==
               dict_comprehension(<<<<"query", args.query>>,
                                       <<"limit", args.limit>>>>)
         IN  get(c, "get_snippet_search", args, url, query_params)
    /\ UNCHANGED <<app, tools>>

---------------------------------------------------------------------------
(* The transport's answer and the operation's two closing statements *)

\* The pending _get/_post call of caller c comes back: with a response, or
\* with the transport's own exception, which the operation does not catch.
transport(c) ==
    /\ frame[c].pc = "waiting"
    /\ \/ \E response \in Responses :
            frame' = [frame EXCEPT ![c].pc = "responded",
                                   ![c].response = response]
       \/ frame' = [frame EXCEPT ![c].pc = "done",
                                 ![c].outcome = Raise(ConnectError)]
    /\ UNCHANGED <<app, tools>>

\* return response: the response handed back undecoded.
json_undecoded(response) == Return(response)

\* response.json()
json(response) ==
    IF response.body.json THEN Return(response.body.value)
                          ELSE Raise(JSONDecodeError)

\* return response.json() without response.raise_for_status() before it.
json_without_raise_for_status(c) ==
    /\ frame[c].pc = "responded"
    /\ frame' = [frame EXCEPT ![c].pc = "done",
                              ![c].decoded = TRUE,
                              ![c].outcome = json(frame[c].response)]
    /\ UNCHANGED <<app, tools>>

\* The closing statements reading the response from a place all the
\* invocations share (as if kept in an attribute of the adapter): the
\* response at hand is that of any invocation that has one.
raise_for_status_json_shared(c) ==
    /\ frame[c].pc = "responded"
    /\ \E d \in DOMAIN frame :
         /\ frame[d].response # None
         /\ IF ~is_success(frame[d].response)
            THEN frame' = [frame EXCEPT
                             ![c].pc = "done",
                             ![c].outcome = Raise(HTTPStatusError(frame[d].response))]
            ELSE frame' = [frame EXCEPT
                             ![c].pc = "done",
                             ![c].decoded = TRUE,
                             ![c].outcome = json(frame[d].response)]
    /\ UNCHANGED <<app, tools>>

\* response.raise_for_status()
\* return response.json()
raise_for_status_json(c) ==
    /\ frame[c].pc = "responded"
    /\ IF ~is_success(frame[c].response)
       THEN frame' = [frame EXCEPT
                        ![c].pc = "done",
                        ![c].outcome = Raise(HTTPStatusError(frame[c].response))]
       ELSE frame' = [frame EXCEPT
                        ![c].pc = "done",
                        ![c].decoded = TRUE,
                        ![c].outcome = json(frame[c].response)]
    /\ UNCHANGED <<app, tools>>

\* The caller has the outcome; its next invocation starts afresh.
finish(c) ==
    /\ frame[c].pc = "done"
    /\ frame' = [frame EXCEPT ![c] = Idle]
    /\ UNCHANGED <<app, tools>>

---------------------------------------------------------------------------
(* Discovery *)

\* list_tools with its last entry left out.
list_tools_short ==
    <<"post_graph_get_authors",
      "get_graph_get_author_search",
      "get_graph_get_author",
      "get_graph_get_author_papers",
      "get_graph_get_paper_autocomplete",
      "post_graph_get_papers",
      "get_graph_paper_relevance_search",
      "get_graph_paper_bulk_search",
      "get_graph_paper_title_search",
      "get_graph_get_paper",
      "get_graph_get_paper_authors",
      "get_graph_get_paper_citations",
      "get_graph_get_paper_references">>

list_tools ==
    <<"post_graph_get_authors",
      "get_graph_get_author_search",
      "get_graph_get_author",
      "get_graph_get_author_papers",
      "get_graph_get_paper_autocomplete",
      "post_graph_get_papers",
      "get_graph_paper_relevance_search",
      "get_graph_paper_bulk_search",
      "get_graph_paper_title_search",
      "get_graph_get_paper",
      "get_graph_get_paper_authors",
      "get_graph_get_paper_citations",
      "get_graph_get_paper_references",
      "get_snippet_search">>

\* The hosting framework asks for the tools; `tools` is the last answer.
ListTools ==
    /\ tools' = list_tools
    /\ UNCHANGED <<app, frame>>

---------------------------------------------------------------------------
(* The specification *)

Next ==
    \/ \E c \in Callers : post_graph_get_authors(c)
    \/ \E c \in Callers : get_graph_get_author_search(c)
    \/ \E c \in Callers : get_graph_get_author(c)
    \/ \E c \in Callers : get_graph_get_author_papers(c)
    \/ \E c \in Callers : get_graph_get_paper_autocomplete(c)
    \/ \E c \in Callers : post_graph_get_papers(c)
    \/ \E c \in Callers : get_graph_paper_relevance_search(c)
    \/ \E c \in Callers : get_graph_paper_bulk_search(c)
    \/ \E c \in Callers : get_graph_paper_title_search(c)
    \/ \E c \in Callers : get_graph_get_paper(c)
    \/ \E c \in Callers : get_graph_get_paper_authors(c)
    \/ \E c \in Callers : get_graph_get_paper_citations(c)
    \/ \E c \in Callers : get_graph_get_paper_references(c)
    \/ \E c \in Callers : get_snippet_search(c)
    \/ \E c \in Callers : transport(c)
    \/ \E c \in Callers : raise_for_status_json(c)
    \/ \E c \in Callers : finish(c)
    \/ ListTools

Spec == Init /\ [][Next]_vars

\* The same operations, invoked by the server's concurrent callers.
NextConcurrent ==
    \/ \E c \in ConcurrentCallers : post_graph_get_authors(c)
    \/ \E c \in ConcurrentCallers : get_graph_get_author_search(c)
    \/ \E c \in ConcurrentCallers : get_graph_get_author(c)
    \/ \E c \in ConcurrentCallers : get_graph_get_author_papers(c)
    \/ \E c \in ConcurrentCallers : get_graph_get_paper_autocomplete(c)
    \/ \E c \in ConcurrentCallers : post_graph_get_papers(c)
    \/ \E c \in ConcurrentCallers : get_graph_paper_relevance_search(c)
    \/ \E c \in ConcurrentCallers : get_graph_paper_bulk_search(c)
    \/ \E c \in ConcurrentCallers : get_graph_paper_title_search(c)
    \/ \E c \in ConcurrentCallers : get_graph_get_paper(c)
    \/ \E c \in ConcurrentCallers : get_graph_get_paper_authors(c)
    \/ \E c \in ConcurrentCallers : get_graph_get_paper_citations(c)
    \/ \E c \in ConcurrentCallers : get_graph_get_paper_references(c)
    \/ \E c \in ConcurrentCallers : get_snippet_search(c)
    \/ \E c \in ConcurrentCallers : transport(c)
    \/ \E c \in ConcurrentCallers : raise_for_status_json(c)
    \/ \E c \in ConcurrentCallers : finish(c)

SpecConcurrent == InitConcurrent /\ [][NextConcurrent]_vars

---------------------------------------------------------------------------
(* Vocabulary of the properties *)

AuthorIdOps == {"get_graph_get_author", "get_graph_get_author_papers"}
PaperIdOps == {"get_graph_get_paper", "get_graph_get_paper_authors",
               "get_graph_get_paper_citations", "get_graph_get_paper_references"}
BatchOps == {"post_graph_get_authors", "post_graph_get_papers"}
PathNames == {"author_id", "paper_id"}
BodyNames == {"ids"}
GraphBase == <<"graph", "v1">>

\* The frames of invocations under way or ended and not yet handed back.
Active == {c \in DOMAIN frame : frame[c].pc # "idle"}

\* The invocation was made without the identifier its operation requires.
IdentifierAbsent(f) ==
    \/ f.op \in AuthorIdOps /\ f.args.author_id = None
    \/ f.op \in PaperIdOps /\ f.args.paper_id = None

IsPrefix(p, s) == Len(p) <= Len(s) /\ SubSeq(s, 1, Len(p)) = p

Failed(f, type) ==
    f.pc = "done" /\ f.outcome.kind = "raise" /\ f.outcome.exc.type = type

---------------------------------------------------------------------------
(* C1 *)

\* C1: an operation that requires a resource identifier, invoked with that
\* identifier None, has failed with ValueError (invalid argument) as soon as
\* it has acted, and no request was issued then or later in that invocation.
C1_AbsentIdentifierFailsWithoutRequest ==
    \A c \in Active :
        IdentifierAbsent(frame[c]) =>
            /\ Failed(frame[c], "ValueError")
            /\ frame[c].requests = <<>>
            /\ frame[c].response = None

C1_Witness ==
    \E c \in Callers :
        /\ frame[c].op = "get_graph_get_paper_citations"
        /\ frame[c].args.paper_id = None
        /\ frame[c].args.limit = PyInt(5)
        /\ Failed(frame[c], "ValueError")
        /\ frame[c].outcome.exc.msg = "Missing required parameter 'paper_id'"

---------------------------------------------------------------------------
(* C2 *)

\* C2: in every request, the keys of the query parameters are exactly the
\* names of the non-path, non-body arguments supplied with a value other
\* than None, each with the supplied value (0, "" and [] included); the
\* keys of a POST body are exactly the supplied body arguments; a GET has no
\* body.  Example: get_graph_paper_relevance_search(query="bert", limit=5)
\* sends the query parameters {query: "bert", limit: 5} and nothing else.
C2_ExactlySuppliedKeys ==
    \A c \in Active : \A i \in 1..Len(frame[c].requests) :
        LET f == frame[c]
            r == f.requests[i]
            q == Supplied(f.args) \ (PathNames \cup BodyNames)
            b == Supplied(f.args) \cap BodyNames
        IN  /\ DOMAIN r.params = q
            /\ \A k \in q : r.params[k] = f.args[k]
            /\ IF r.method = "POST"
               THEN DOMAIN r.data = b /\ \A k \in b : r.data[k] = f.args[k]
               ELSE r.data = None /\ b = {}
            /\ ( /\ f.op = "get_graph_paper_relevance_search"
                 /\ f.args.query = PyStr("bert")
                 /\ f.args.limit = PyInt(5)
                 /\ Supplied(f.args) = {"query", "limit"} )
               => r.params = [query |-> PyStr("bert"), limit |-> PyInt(5)]

\* The example of C2, with the request on its way.
C2_Witness ==
    \E c \in Callers :
        /\ frame[c].op = "get_graph_paper_relevance_search"
        /\ Supplied(frame[c].args) = {"query", "limit"}
        /\ frame[c].requests =
             <<Request("GET", <<"graph", "v1", "paper", "search">>,
                       [query |-> PyStr("bert"), limit |-> PyInt(5)], None)>>

---------------------------------------------------------------------------
(* C3 *)

\* C3: when the transport answers with a success status and a JSON body B,
\* the operation returns exactly B.  Example: get_graph_get_paper(paper_id=
\* "123") issues GET /graph/v1/paper/123 with no query parameters.
C3_SuccessReturnsBody ==
    \A c \in Active :
        LET f == frame[c]
        IN  /\ ( /\ f.pc = "done"
                 /\ f.response # None
                 /\ is_success(f.response)
                 /\ f.response.body.json )
               => f.outcome = Return(f.response.body.value)
            /\ ( /\ f.op = "get_graph_get_paper"
                 /\ f.args = [paper_id |-> PyStr("123"), fields |-> None] )
               => f.requests =
                    <<Request("GET", <<"graph", "v1", "paper", "123">>, <<>>, None)>>

C3_Witness ==
    \E c \in Callers :
        /\ frame[c].pc = "done"
        /\ frame[c].op = "get_graph_get_paper"
        /\ frame[c].args = [paper_id |-> PyStr("123"), fields |-> None]
        /\ frame[c].response # None
        /\ frame[c].response.status_code = 200
        /\ frame[c].outcome = Return([paperId |-> "123"])

---------------------------------------------------------------------------
(* C4 *)

\* C4: when the transport answers with a non-success status, the operation
\* ends with the error raise_for_status raised, as it is; the body was never
\* decoded, nothing is returned, and only the one request was issued.
C4_ErrorStatusPropagates ==
    \A c \in Active :
        LET f == frame[c]
        IN  (f.response # None /\ ~is_success(f.response)) =>
              /\ ~f.decoded
              /\ Len(f.requests) = 1
              /\ f.pc \in {"responded", "done"}
              /\ f.pc = "done" => f.outcome = Raise(HTTPStatusError(f.response))

C4_Witness ==
    \E c \in Callers :
        /\ frame[c].op = "post_graph_get_authors"
        /\ frame[c].response # None
        /\ frame[c].response.status_code = 404
        /\ frame[c].response.body.json
        /\ Failed(frame[c], "HTTPStatusError")

---------------------------------------------------------------------------
(* C5 *)

\* C5: an invocation that passes its required-parameter check has issued
\* exactly one request from its transport call on, until it returns or
\* fails; no invocation issues more than one; the verb is POST for the two
\* batch operations and GET for the twelve others.
C5_ExactlyOneRequest ==
    \A c \in Callers :
        LET f == frame[c]
        IN  /\ Len(f.requests) <= 1
            /\ (f.pc # "idle" /\ ~IdentifierAbsent(f)) => Len(f.requests) = 1
            /\ \A i \in 1..Len(f.requests) :
                 f.requests[i].method = IF f.op \in BatchOps THEN "POST" ELSE "GET"

\* A batch operation that ended, with its one POST, on a transport failure.
C5_Witness ==
    \E c \in Callers :
        /\ frame[c].op = "post_graph_get_papers"
        /\ Failed(frame[c], "ConnectError")
        /\ Len(frame[c].requests) = 1
        /\ frame[c].requests[1].method = "POST"

---------------------------------------------------------------------------
(* C6 *)

\* C6, as claimed: the requests of the thirteen graph operations go to a
\* path under /graph/v1, and the request of get_snippet_search goes to
\* /snippet/search, which is not under /graph/v1.
C6_SnippetBesideGraphBase ==
    \A c \in Active : \A i \in 1..Len(frame[c].requests) :
        LET url == frame[c].requests[i].url
        IN  IF frame[c].op = "get_snippet_search"
            THEN url = <<"snippet", "search">> /\ ~IsPrefix(GraphBase, url)
            ELSE IsPrefix(GraphBase, url)

\* C6, amended: the requests of all fourteen operations go to a path under
\* /graph/v1; the request of get_snippet_search goes to
\* /graph/v1/snippet/search.
C6_AllUnderGraphBase ==
    \A c \in Active : \A i \in 1..Len(frame[c].requests) :
        LET url == frame[c].requests[i].url
        IN  /\ IsPrefix(GraphBase, url)
            /\ Len(url) > Len(GraphBase)
            /\ frame[c].op = "get_snippet_search"
               => url = <<"graph", "v1", "snippet", "search">>

C6_Witness ==
    \E c \in Callers :
        /\ frame[c].op = "get_snippet_search"
        /\ frame[c].args.query = PyStr("bert")
        /\ Len(frame[c].requests) = 1
        /\ frame[c].requests[1].url = <<"graph", "v1", "snippet", "search">>

---------------------------------------------------------------------------
(* C7 *)

\* C7, as claimed: every POST request, whatever the arguments, has a body
\* whose keys are exactly {ids}, with the supplied array as value, and query
\* parameters with no key other than fields.
C7_BodyIsIds ==
    \A c \in Active : \A i \in 1..Len(frame[c].requests) :
        LET r == frame[c].requests[i]
        IN  r.method = "POST" =>
              /\ DOMAIN r.data = {"ids"}
              /\ r.data.ids = frame[c].args.ids
              /\ DOMAIN r.params \subseteq {"fields"}

\* C7, amended: every POST request has a body whose keys are exactly {ids},
\* with the supplied array as value, when ids was supplied with a value
\* other than None, and an empty body when ids is None; its query
\* parameters have no key other than fields.  Example:
\* post_graph_get_papers(ids=["A1","A2"]) issues POST /graph/v1/paper/batch
\* with body {ids: ["A1","A2"]} and no query parameters.
C7_BodyIsSuppliedIds ==
    \A c \in Active : \A i \in 1..Len(frame[c].requests) :
        LET f == frame[c]
            r == f.requests[i]
        IN  /\ r.method = "POST" =>
                 /\ f.op \in BatchOps
                 /\ DOMAIN r.params \subseteq {"fields"}
                 /\ IF f.args.ids = None
                    THEN r.data = <<>>
                    ELSE r.data = [ids |-> f.args.ids]
            /\ ( /\ f.op = "post_graph_get_papers"
                 /\ f.args = [fields |-> None, ids |-> PyList(<<"A1", "A2">>)] )
               => r = Request("POST", <<"graph", "v1", "paper", "batch">>, <<>>,
                              [ids |-> PyList(<<"A1", "A2">>)])

C7_Witness ==
    \E c \in Callers :
        /\ frame[c].op = "post_graph_get_papers"
        /\ frame[c].args = [fields |-> None, ids |-> PyList(<<"A1", "A2">>)]
        /\ Len(frame[c].requests) = 1
        /\ frame[c].requests[1].data = [ids |-> PyList(<<"A1", "A2">>)]
        /\ frame[c].requests[1].params = <<>>

---------------------------------------------------------------------------
(* C8 *)

\* C8: the application's name is "semanticscholar", from construction on
\* and after any sequence of invocations.
C8_NameIsSemanticscholar == app.name = "semanticscholar"

---------------------------------------------------------------------------
(* C9 *)

OperationsInOrder ==
    <<"post_graph_get_authors",             \* batch author lookup
      "get_graph_get_author_search",        \* author search
      "get_graph_get_author",               \* author lookup
      "get_graph_get_author_papers",        \* author papers
      "get_graph_get_paper_autocomplete",   \* paper autocomplete
      "post_graph_get_papers",              \* batch paper lookup
      "get_graph_paper_relevance_search",   \* relevance search
      "get_graph_paper_bulk_search",        \* bulk search
      "get_graph_paper_title_search",       \* title-match search
      "get_graph_get_paper",                \* paper lookup
      "get_graph_get_paper_authors",        \* paper authors
      "get_graph_get_paper_citations",      \* paper citations
      "get_graph_get_paper_references",     \* paper references
      "get_snippet_search">>                \* snippet search

\* C9: whatever the invocations before it, list_tools answers the fourteen
\* operations, each once, in the order of OperationsInOrder.
C9_ListToolsFixed ==
    tools # None =>
        /\ tools = OperationsInOrder
        /\ Len(tools) = 14
        /\ Cardinality({tools[i] : i \in 1..Len(tools)}) = 14
        /\ \A c \in Active : \E i \in 1..Len(tools) : tools[i] = frame[c].op

\* list_tools has answered, and an invocation has failed on its transport.
C9_Witness ==
    /\ tools # None
    /\ \E c \in Callers : Failed(frame[c], "HTTPStatusError")

---------------------------------------------------------------------------
(* C10 *)

\* C10: no step of any invocation, failing or not, changes the adapter's
\* name, base URL or integration (its credential source).
C10_AdapterUnchanged == [][app' = app]_vars

\* An invocation failed on a missing identifier and another state of the
\* same adapter is past a transport error; the adapter is as constructed.
C10_Witness ==
    /\ app = [name |-> "semanticscholarapp",
              integration |-> [type |-> "ApiKeyIntegration",
                               name |-> "SEMANTICSCHOLAR_API_KEY"],
              base_url |-> <<"graph", "v1">>]
    /\ \E c \in Callers :
         /\ frame[c].op = "get_graph_get_author"
         /\ Failed(frame[c], "HTTPStatusError")

---------------------------------------------------------------------------
(* C12 *)

QueryOps == {"get_graph_get_author_search", "get_graph_get_paper_autocomplete",
             "get_graph_paper_relevance_search", "get_graph_paper_bulk_search",
             "get_graph_paper_title_search", "get_snippet_search"}

\* C12: an operation whose required parameter is query, invoked with query
\* None, raises no ValueError: it has issued exactly one GET request, whose
\* query parameters have no key query.
C12_QueryIsNotChecked ==
    \A c \in Active :
        LET f == frame[c]
        IN  (f.op \in QueryOps /\ f.args.query = None) =>
              /\ ~Failed(f, "ValueError")
              /\ Len(f.requests) = 1
              /\ f.requests[1].method = "GET"
              /\ "query" \notin DOMAIN f.requests[1].params

\* get_snippet_search(query=None, limit=5) returned the transport's body.
C12_Witness ==
    \E c \in DOMAIN frame :
        /\ frame[c].op = "get_snippet_search"
        /\ frame[c].args = [query |-> None, limit |-> PyInt(5)]
        /\ frame[c].requests =
             <<Request("GET", <<"graph", "v1", "snippet", "search">>,
                       [limit |-> PyInt(5)], None)>>
        /\ frame[c].pc = "done"
        /\ frame[c].outcome.kind = "return"

---------------------------------------------------------------------------
(* C11 *)

\* The path, under the base path, an operation run alone asks for.
AlonePath(op, args) ==
    CASE op = "post_graph_get_authors" -> <<"author", "batch">>
      [] op = "get_graph_get_author_search" -> <<"author", "search">>
      [] op = "get_graph_get_author" -> <<"author", args.author_id.val>>
      [] op = "get_graph_get_author_papers" -> <<"author", args.author_id.val, "papers">>
      [] op = "get_graph_get_paper_autocomplete" -> <<"paper", "autocomplete">>
      [] op = "post_graph_get_papers" -> <<"paper", "batch">>
      [] op = "get_graph_paper_relevance_search" -> <<"paper", "search">>
      [] op = "get_graph_paper_bulk_search" -> <<"paper", "search", "bulk">>
      [] op = "get_graph_paper_title_search" -> <<"paper", "search", "match">>
      [] op = "get_graph_get_paper" -> <<"paper", args.paper_id.val>>
      [] op = "get_graph_get_paper_authors" -> <<"paper", args.paper_id.val, "authors">>
      [] op = "get_graph_get_paper_citations" -> <<"paper", args.paper_id.val, "citations">>
      [] op = "get_graph_get_paper_references" -> <<"paper", args.paper_id.val, "references">>
      [] op = "get_snippet_search" -> <<"snippet", "search">>

\* The request (verb, path, query parameters, body) of an operation run
\* alone with these arguments.
AloneRequest(op, args) ==
    LET q == Supplied(args) \ (PathNames \cup BodyNames)
        b == Supplied(args) \cap BodyNames
    IN  Request(IF op \in BatchOps THEN "POST" ELSE "GET",
                GraphBase \o AlonePath(op, args),
                [k \in q |-> args[k]],
                IF op \in BatchOps THEN [k \in b |-> args[k]] ELSE None)

\* The result or error of an invocation run alone with the arguments of f
\* and the transport's answer to f (no response: the transport failed).
AloneOutcome(f) ==
    IF f.op \in AuthorIdOps /\ f.args.author_id = None
    THEN Raise(ValueError("Missing required parameter 'author_id'"))
    ELSE IF f.op \in PaperIdOps /\ f.args.paper_id = None
    THEN Raise(ValueError("Missing required parameter 'paper_id'"))
    ELSE IF f.response = None THEN Raise(ConnectError)
    ELSE IF ~is_success(f.response) THEN Raise(HTTPStatusError(f.response))
    ELSE IF f.response.body.json THEN Return(f.response.body.value)
    ELSE Raise(JSONDecodeError)

\* C11: whatever the interleaving of the callers' invocations, each
\* invocation issues the request, and ends with the result or error, that
\* its operation, its arguments and the transport's answer to it determine:
\* those of the same invocation run alone, the runs in which the other
\* caller never acts being among the runs checked.
C11_SameAsAlone ==
    \A c \in Active :
        LET f == frame[c]
        IN  /\ f.requests = IF IdentifierAbsent(f)
                            THEN <<>>
                            ELSE <<AloneRequest(f.op, f.args)>>
            /\ f.pc = "done" => f.outcome = AloneOutcome(f)

\* Two invocations overlap: get_graph_get_author_papers("123") has its
\* success response at hand and has not ended, while get_snippet_search()
\* has ended with the error of its own, non-success, response.
C11_Witness ==
    /\ DOMAIN frame = {"c1", "c2"}
    /\ frame["c1"].op = "get_graph_get_author_papers"
    /\ frame["c1"].args.author_id = PyStr("123")
    /\ frame["c1"].pc = "responded"
    /\ is_success(frame["c1"].response)
    /\ frame["c2"].op = "get_snippet_search"
    /\ frame["c2"].response # None
    /\ ~is_success(frame["c2"].response)
    /\ Failed(frame["c2"], "HTTPStatusError")

=============================================================================
